---- MODULE Spec2Model ----
(***************************************************************************)
(* Model of the merge-on-write persistence of whisper_stt.py:              *)
(* append_to_master_log (load -> find -> merge/append -> save) and the     *)
(* __main__ pipeline step that calls it.                                   *)
(*                                                                         *)
(* Python dicts are TLA+ records (functions on strings); a key that is     *)
(* missing from a dict is missing from DOMAIN.  Strings are TLA+ strings.  *)
(***************************************************************************)
EXTENDS Integers, Sequences, FiniteSets, TLC

VARIABLES
    store,        \* content of the file at master_log_path
    clock,        \* index in Calendar of the date datetime.now() returns
    runs,         \* number of finished invocations of the pipeline
    last,         \* record of the last finished sequential invocation
    calls,        \* per target date: invocations that targeted it
    contributed,  \* per target date: total length of incoming exercise lists
    pc,           \* per concurrent invocation: position in append_to_master_log
    wdata,        \* per concurrent invocation: workout_data (date forced)
    tdate,        \* per concurrent invocation: local variable today
    mlog,         \* per concurrent invocation: local variable master_log
    snap,         \* per concurrent invocation: file content read by json.load
    seenVer,      \* per concurrent invocation: number of saves before its load
    openVer,      \* per concurrent invocation: number of saves before its open
    wroteVer,     \* per concurrent invocation: ordinal of its own save
    version       \* number of completed saves (json.dump finished)

vars == <<store, clock, runs, last, calls, contributed,
          pc, wdata, tdate, mlog, snap, seenVer, openVer, wroteVer, version>>

seqVars  == <<runs, last, calls, contributed>>
concVars == <<pc, wdata, tdate, mlog, snap, seenVer, openVer, wroteVer, version>>

---------------------------------------------------------------------------
(* Bounds *)
MaxRuns      == 2     \* sequential invocations from an empty/absent store
MaxLegacyLen == 2     \* records in a pre-existing log file
NumProcs     == 2     \* concurrent invocations

---------------------------------------------------------------------------
(* Python values *)

\* Python None: the value of dict.get on a missing key and of the
\* date_override parameter when sys.argv has no 5th argument.
PyNone == "<None>"

\* Truth value of a str-or-None in an `if`.
Truthy(v) == v # PyNone /\ v # ""

\* dict.get(k, default)
Get(d, k, default) == IF k \in DOMAIN d THEN d[k] ELSE default

\* d[k] = v
Put(d, k, v) == [x \in (DOMAIN d) \cup {k} |-> IF x = k THEN v ELSE d[x]]

\* str.startswith
StartsWith(s, prefix) ==
    /\ Len(prefix) <= Len(s)
    /\ SubSeq(s, 1, Len(prefix)) = prefix

\* An element of the "workouts" list that is not a JSON object (e.g. 5).
NonObject == [json_type |-> "number"]

IsDict(e) == "json_type" \notin DOMAIN e

---------------------------------------------------------------------------
(* Dates *)

\* datetime.now().date().isoformat() over the days the model's clock covers
Calendar == <<"2025-11-01", "2025-11-02">>

\* sys.argv[5]: absent, or a YYYY-MM-DD date (a calendar day or a backfill)
Overrides == {PyNone, "2025-11-01", "2025-11-02", "2025-10-31"}

TargetDates == {Calendar[i] : i \in DOMAIN Calendar} \cup (Overrides \ {PyNone})

\* lines 117-121: today = date_override if date_override else now
Today(date_override, now) ==
    IF Truthy(date_override) THEN date_override ELSE now

---------------------------------------------------------------------------
(* Incoming records (the Extraction Service's output, lines 42-63) *)

Squat   == [name |-> "squat", sets |-> <<[set_number |-> 1, reps |-> 5]>>]
Bench   == [name |-> "bench", sets |-> <<>>]
NoName  == [name |-> "", sets |-> <<>>]
NoSetNo == [name |-> "row", sets |-> <<[reps |-> 8]>>]

\* The "date" the extraction put in the record (line 61); overwritten at 124.
ExtractedDate == "1999-12-31"

\* dicts ds, each with key k missing or set to one of vals
OptKey(ds, k, vals) == ds \cup {Put(d, k, v) : d \in ds, v \in vals}

\* dicts ds, each with key k set to one of vals
WithKey(ds, k, vals) == {Put(d, k, v) : d \in ds, v \in vals}

\* Records that satisfy the record contract.
ValidIncoming ==
    OptKey(OptKey(WithKey({[date |-> ExtractedDate]},
        "exercises", {<<>>, <<Squat>>, <<Squat, Bench>>}),
        "workout_type", {"strength", "cardio"}),
        "notes", {"tired"})

\* Whatever json.loads(result["response"]) may return as a dict (line 93).
AllIncoming ==
    OptKey(OptKey(OptKey(OptKey({[date |-> ExtractedDate]},
        "exercises", {<<>>, <<Squat>>, <<NoName>>, <<NoSetNo>>}),
        "workout_type", {"", "strength", "cardio"}),
        "duration", {"45 min"}),
        "notes", {"", "felt great"})

---------------------------------------------------------------------------
(* The file at master_log_path *)

\* kind: what open()/json.load() find at the path
\*   "absent"            no file                      (FileNotFoundError)
\*   "invalid_json"      text json.load rejects, e.g. a truncated document
\*   "not_object"        a JSON value that is not an object, e.g. []
\*   "no_workouts_key"   an object without the key "workouts"
\*   "workouts_not_list" {"workouts": null}
\*   "log"               {"workouts": [...]}, the list in workouts
File(kind) == [kind |-> kind, workouts |-> <<>>]
Log(workouts) == [kind |-> "log", workouts |-> workouts]

NoFile    == File("absent")
Truncated == File("invalid_json")
EmptyLog  == Log(<<>>)

\* Records of a pre-existing log: date-only and datetime dates, keys missing.
LegacyElements ==
    { [date |-> "2025-11-01", exercises |-> <<Squat>>,
       workout_type |-> "strength", duration |-> "30 min", notes |-> "tired"],
      [date |-> "2025-11-01T00:00:00", exercises |-> <<>>,
       workout_type |-> "cardio", notes |-> ""],
      [date |-> "2025-11-02", exercises |-> <<Bench>>],
      NonObject }

SeqsUpTo(S, n) == UNION {[1..k -> S] : k \in 0..n}

LegacyStores ==
    {File(k) : k \in {"absent", "invalid_json", "not_object",
                      "no_workouts_key", "workouts_not_list"}}
    \cup {Log(w) : w \in SeqsUpTo(LegacyElements, MaxLegacyLen)}

---------------------------------------------------------------------------
(* append_to_master_log, lines 105-170 *)

\* line 124: workout_data["date"] = today
ForceDate_keep(workout_data, today) == workout_data

ForceDate(workout_data, today) == Put(workout_data, "date", today)

\* lines 126-131: a missing file is an empty log; json.load raises on text
\* that is not JSON; any JSON value is returned as it is.
Load(file) ==
    IF file.kind = "absent" THEN [status |-> "ok", master_log |-> EmptyLog]
    ELSE IF file.kind = "invalid_json"
         THEN [status |-> "JSONDecodeError", master_log |-> file]
         ELSE [status |-> "ok", master_log |-> file]

\* lines 134-140: index of the first workout whose date starts with today
\* (0: existing_workout stays None); an element without .get raises.
RECURSIVE ScanFrom(_, _, _)
ScanFrom(workouts, today, i) ==
    IF i > Len(workouts) THEN [status |-> "ok", idx |-> 0]
    ELSE IF ~IsDict(workouts[i]) THEN [status |-> "AttributeError", idx |-> 0]
    ELSE IF StartsWith(Get(workouts[i], "date", ""), today)
         THEN [status |-> "ok", idx |-> i]
         ELSE ScanFrom(workouts, today, i + 1)

RECURSIVE ScanLast(_, _, _)
ScanLast(workouts, today, i) ==
    IF i > Len(workouts) THEN [status |-> "ok", idx |-> 0]
    ELSE IF ~IsDict(workouts[i]) THEN [status |-> "AttributeError", idx |-> 0]
    ELSE LET rest == ScanLast(workouts, today, i + 1)
         IN  IF rest.status = "ok" /\ rest.idx = 0
                /\ StartsWith(Get(workouts[i], "date", ""), today)
             THEN [status |-> "ok", idx |-> i]
             ELSE rest

\* the loop without its break: the last match wins
FindExisting_last(workouts, today) == ScanLast(workouts, today, 1)

\* the loop over workouts[1:]
FindExisting_skipFirst(workouts, today) == ScanFrom(workouts, today, 2)

FindExisting(workouts, today) == ScanFrom(workouts, today, 1)

\* lines 146-148
ReconcileType_overwrite(existing_workout, workout_data) ==
    IF Truthy(Get(workout_data, "workout_type", PyNone))
    THEN Put(existing_workout, "workout_type", workout_data["workout_type"])
    ELSE existing_workout

ReconcileType(existing_workout, workout_data) ==
    IF /\ Truthy(Get(workout_data, "workout_type", PyNone))
       /\ workout_data["workout_type"]
              # Get(existing_workout, "workout_type", PyNone)
    THEN Put(existing_workout, "workout_type", "mixed")
    ELSE existing_workout

\* lines 150-156
ReconcileNotes_alwaysJoin(existing_workout, workout_data) ==
    IF Truthy(Get(workout_data, "notes", PyNone))
    THEN Put(existing_workout, "notes",
             Get(existing_workout, "notes", "") \o "; " \o workout_data["notes"])
    ELSE existing_workout

ReconcileNotes(existing_workout, workout_data) ==
    IF Truthy(Get(workout_data, "notes", PyNone))
    THEN LET existing_notes == Get(existing_workout, "notes", "")
         IN  IF Truthy(existing_notes)
             THEN Put(existing_workout, "notes",
                      existing_notes \o "; " \o workout_data["notes"])
             ELSE Put(existing_workout, "notes", workout_data["notes"])
    ELSE existing_workout

\* line 144
ExtendExercises_assign(existing_workout, workout_data) ==
    Put(existing_workout, "exercises", workout_data["exercises"])

ExtendExercises(existing_workout, workout_data) ==
    Put(existing_workout, "exercises",
        existing_workout["exercises"] \o workout_data["exercises"])

\* lines 143-156: the matched record after the merge; line 144 raises
\* KeyError when either dict has no "exercises".
MergeInto_duration(existing_workout, workout_data) ==
    IF "exercises" \notin DOMAIN existing_workout
       \/ "exercises" \notin DOMAIN workout_data
    THEN [status |-> "KeyError", workout |-> existing_workout]
    ELSE [status |-> "ok",
          workout |-> Put(ReconcileNotes(ReconcileType(
                          ExtendExercises(existing_workout, workout_data),
                          workout_data), workout_data),
                          "duration", Get(workout_data, "duration", ""))]

MergeInto(existing_workout, workout_data) ==
    IF "exercises" \notin DOMAIN existing_workout
       \/ "exercises" \notin DOMAIN workout_data
    THEN [status |-> "KeyError", workout |-> existing_workout]
    ELSE [status |-> "ok",
          workout |-> ReconcileNotes(ReconcileType(
                          ExtendExercises(existing_workout, workout_data),
                          workout_data), workout_data)]

\* lines 133-163 on the loaded value: the value json.dump is given, or the
\* exception raised before line 165.
MergeLog(master_log, workout_data, today) ==
    IF master_log.kind = "not_object" \/ master_log.kind = "workouts_not_list"
    THEN [status |-> "TypeError", master_log |-> master_log]
    ELSE IF master_log.kind = "no_workouts_key"
    THEN [status |-> "KeyError", master_log |-> master_log]
    ELSE
    LET workouts == master_log.workouts
        found    == FindExisting(workouts, today)
    IN  IF found.status # "ok"
        THEN [status |-> found.status, master_log |-> master_log]
        ELSE IF found.idx # 0 /\ DOMAIN workouts[found.idx] # {}
        THEN LET merged == MergeInto(workouts[found.idx], workout_data)
             IN  IF merged.status # "ok"
                 THEN [status |-> merged.status, master_log |-> master_log]
                 ELSE [status |-> "ok",
                       master_log |->
                           Log([workouts EXCEPT ![found.idx] = merged.workout])]
        ELSE [status |-> "ok",
              master_log |-> Log(Append(workouts,
                                        ForceDate(workout_data, today)))]

\* lines 105-170 run without interruption: the file after the call and how
\* the call ended.
AppendToMasterLog(workout_data, file, date_override, now) ==
    LET today  == Today(date_override, now)
        wd     == ForceDate(workout_data, today)
        loaded == Load(file)
    IN  IF loaded.status # "ok"
        THEN [status |-> loaded.status, file |-> file, today |-> today]
        ELSE LET merged == MergeLog(loaded.master_log, wd, today)
             IN  IF merged.status # "ok"
                 THEN [status |-> merged.status, file |-> file, today |-> today]
                 ELSE [status |-> "ok", file |-> merged.master_log,
                       today |-> today]

---------------------------------------------------------------------------
(* Sequential invocations: __main__, lines 191-224, one run after another *)

Procs == 1..NumProcs

NoRun == [status |-> "none", pre |-> NoFile,
          wd |-> [date |-> ExtractedDate], today |-> ""]

InitCommon ==
    /\ runs = 0
    /\ last = NoRun
    /\ calls = [d \in TargetDates |-> 0]
    /\ contributed = [d \in TargetDates |-> 0]
    /\ pc = [p \in Procs |-> "start"]
    /\ wdata = [p \in Procs |-> [date |-> ExtractedDate]]
    /\ tdate = [p \in Procs |-> ""]
    /\ mlog = [p \in Procs |-> EmptyLog]
    /\ snap = [p \in Procs |-> NoFile]
    /\ seenVer = [p \in Procs |-> 0]
    /\ openVer = [p \in Procs |-> 0]
    /\ wroteVer = [p \in Procs |-> 0]
    /\ version = 0

\* The store is empty or absent before the first run.
Init ==
    /\ store \in {NoFile, EmptyLog}
    /\ clock = 1
    /\ InitCommon

\* The store holds whatever an earlier version or an editor left in it.
InitLegacy ==
    /\ store \in LegacyStores
    /\ clock \in DOMAIN Calendar
    /\ InitCommon

\* Midnight passes between two runs.
Tick ==
    /\ clock < Len(Calendar)
    /\ clock' = clock + 1
    /\ UNCHANGED <<store, seqVars, concVars>>

\* line 218 inside the try of lines 191-224: the whole call, then exit.
Run(workout_data, date_override) ==
    LET r == AppendToMasterLog(workout_data, store, date_override,
                               Calendar[clock])
        n == IF r.status = "ok" /\ "exercises" \in DOMAIN workout_data
             THEN Len(workout_data["exercises"]) ELSE 0
    IN  /\ store' = r.file
        /\ runs' = runs + 1
        /\ last' = [status |-> r.status, pre |-> store,
                    wd |-> workout_data, today |-> r.today]
        /\ calls' = [calls EXCEPT ![r.today] = @ + 1]
        /\ contributed' = [contributed EXCEPT ![r.today] = @ + n]
        /\ UNCHANGED <<clock, concVars>>

RunFresh ==
    /\ runs < MaxRuns
    /\ \E wd \in ValidIncoming, ov \in Overrides : Run(wd, ov)

RunLegacy ==
    /\ last = NoRun
    /\ \E wd \in AllIncoming, ov \in Overrides : Run(wd, ov)

Next == Tick \/ RunFresh

Spec == Init /\ [][Next]_vars

NextLegacy == RunLegacy

SpecLegacy == InitLegacy /\ [][NextLegacy]_vars

---------------------------------------------------------------------------
(* Concurrent invocations on the same master_log_path.  Each invocation is  *)
(* its own process; the file is all they share.  An invocation is split at  *)
(* its file operations: read (128-129), open for write (166), dump and      *)
(* close (167).                                                             *)

\* A log a previous day left behind.
EarlierLog ==
    Log(<<[date |-> "2025-11-01", exercises |-> <<Squat>>,
           workout_type |-> "strength"]>>)

ConcIncoming ==
    WithKey({[date |-> ExtractedDate]}, "exercises", {<<Squat>>, <<Bench>>})

ConcOverrides == {PyNone, "2025-11-02"}

InitConc ==
    /\ store \in {NoFile, EmptyLog, EarlierLog}
    /\ clock = 1
    /\ InitCommon

\* lines 117-124
Begin(p, workout_data, date_override) ==
    /\ pc[p] = "start"
    /\ LET today == Today(date_override, Calendar[clock])
       IN  /\ tdate' = [tdate EXCEPT ![p] = today]
           /\ wdata' = [wdata EXCEPT ![p] = ForceDate(workout_data, today)]
    /\ pc' = [pc EXCEPT ![p] = "load"]
    /\ UNCHANGED <<store, clock, seqVars, mlog, snap, seenVer, openVer,
                   wroteVer, version>>

\* lines 126-163: read the file, then find and merge in memory; an
\* exception ends the invocation (lines 220-224).
LoadAndMerge(p) ==
    /\ pc[p] = "load"
    /\ snap' = [snap EXCEPT ![p] = store]
    /\ seenVer' = [seenVer EXCEPT ![p] = version]
    /\ LET loaded == Load(store)
           merged == MergeLog(loaded.master_log, wdata[p], tdate[p])
       IN  IF loaded.status = "ok" /\ merged.status = "ok"
           THEN /\ mlog' = [mlog EXCEPT ![p] = merged.master_log]
                /\ pc' = [pc EXCEPT ![p] = "open"]
           ELSE /\ mlog' = mlog
                /\ pc' = [pc EXCEPT ![p] = "failed"]
    /\ UNCHANGED <<store, clock, seqVars, wdata, tdate, openVer, wroteVer,
                   version>>

\* line 166: open(master_log_path, 'w') truncates the file.
OpenWrite(p) ==
    /\ pc[p] = "open"
    /\ store' = Truncated
    /\ openVer' = [openVer EXCEPT ![p] = version]
    /\ pc' = [pc EXCEPT ![p] = "dump"]
    /\ UNCHANGED <<clock, seqVars, wdata, tdate, mlog, snap, seenVer,
                   wroteVer, version>>

\* line 167 and the close of the with block: the document is written from
\* offset 0.  If another invocation wrote the file since this one opened
\* it, the bytes of a longer document stay behind this one's.
DumpOutcomes(master_log, overlapped) ==
    IF overlapped THEN {master_log, Truncated} ELSE {master_log}

Dump(p) ==
    /\ pc[p] = "dump"
    /\ store' \in DumpOutcomes(mlog[p], openVer[p] # version)
    /\ version' = version + 1
    /\ wroteVer' = [wroteVer EXCEPT ![p] = version + 1]
    /\ pc' = [pc EXCEPT ![p] = "done"]
    /\ UNCHANGED <<clock, seqVars, wdata, tdate, mlog, snap, seenVer,
                   openVer>>

NextConc ==
    \E p \in Procs :
        \/ \E wd \in ConcIncoming, ov \in ConcOverrides : Begin(p, wd, ov)
        \/ LoadAndMerge(p)
        \/ OpenWrite(p)
        \/ Dump(p)

SpecConc == InitConc /\ [][NextConc]_vars

---------------------------------------------------------------------------
(* Properties of the sequential runs *)

Ran == last.status # "none"
Ok  == last.status = "ok"

\* The records a file holds: none when there is no file.
Workouts(file) == IF file.kind = "log" THEN file.workouts ELSE <<>>

PreW  == Workouts(last.pre)
PostW == Workouts(store)

IsPrefixOf(p, s) == \E n \in 0..Len(s) : SubSeq(s, 1, n) = p

Matches(w, t) ==
    {i \in 1..Len(w) :
        IsDict(w[i]) /\ "date" \in DOMAIN w[i] /\ IsPrefixOf(t, w[i]["date"])}

FirstMatch(w, t) ==
    IF Matches(w, t) = {} THEN 0
    ELSE CHOOSE i \in Matches(w, t) : \A j \in Matches(w, t) : i <= j

\* index in the pre-run log of the record the last run had to select
Selected == FirstMatch(PreW, last.today)

SameKey(old, new, k) ==
    /\ (k \in DOMAIN new) <=> (k \in DOMAIN old)
    /\ k \in DOMAIN old => new[k] = old[k]

\* dict d has key k with value v
Has(d, k, v) == k \in DOMAIN d /\ d[k] = v

RecordsDated(file, d) ==
    {i \in 1..Len(Workouts(file)) : Workouts(file)[i]["date"] = d}

\* C1: from an empty or absent store, after k >= 1 runs that all target
\* date d, the log holds exactly one record dated d and its exercise list
\* is as long as the k incoming exercise lists together.
C1_SameDayAccumulates ==
    \A d \in TargetDates :
        (runs >= 1 /\ calls[d] = runs) =>
            /\ store.kind = "log"
            /\ Cardinality(RecordsDated(store, d)) = 1
            /\ \A i \in RecordsDated(store, d) :
                   Len(store.workouts[i]["exercises"]) = contributed[d]

C1_Witness ==
    \E d \in TargetDates :
        /\ runs = 2 /\ calls[d] = 2
        /\ contributed[d] = 3
        /\ Has(last.wd, "exercises", <<Squat>>)

\* C2: from an empty or absent store, the persisted log never holds two
\* records for the same calendar date.
C2_OneRecordPerDate ==
    \A i, j \in 1..Len(PostW) :
        i # j => PostW[i]["date"] # PostW[j]["date"]

C2_Witness ==
    /\ runs = 2 /\ Len(PostW) = 1
    /\ last.today = "2025-11-02"
    /\ calls["2025-11-02"] = 2

\* The record contract of the incoming record.
ValidRecord(wd) ==
    /\ "exercises" \in DOMAIN wd
    /\ \A i \in 1..Len(wd["exercises"]) :
         LET e == wd["exercises"][i]
         IN  /\ e.name # ""
             /\ \A k \in 1..Len(e.sets) : "set_number" \in DOMAIN e.sets[k]

\* C3: a run whose incoming record violates the record contract stops
\* without merging and leaves the store as it was.
C3_ValidationFailsClosed ==
    (Ran /\ ~ValidRecord(last.wd)) => (~Ok /\ store = last.pre)

\* The file is not {"workouts": [records...]}.
Malformed(file) ==
    \/ file.kind \in {"invalid_json", "not_object", "no_workouts_key",
                      "workouts_not_list"}
    \/ \E i \in 1..Len(Workouts(file)) : ~IsDict(Workouts(file)[i])

\* C4: a run on a store that does not parse as {"workouts": [records...]}
\* aborts before any write: the store is unchanged.
C4_MalformedStoreAborts ==
    (Ran /\ Malformed(last.pre)) => (~Ok /\ store = last.pre)

\* C6: on a matching record the workout_type becomes "mixed" when the
\* incoming record names a non-empty type different from the existing one,
\* and is unchanged otherwise.
C6_WorkoutType ==
    (Ok /\ Selected # 0) =>
        LET old == PreW[Selected]
            new == PostW[Selected]
            wd  == last.wd
        IN  IF /\ "workout_type" \in DOMAIN wd
               /\ wd["workout_type"] # ""
               /\ \/ "workout_type" \notin DOMAIN old
                  \/ old["workout_type"] # wd["workout_type"]
            THEN "workout_type" \in DOMAIN new /\ new["workout_type"] = "mixed"
            ELSE SameKey(old, new, "workout_type")

C6_Witness ==
    /\ Ok /\ Selected # 0
    /\ last.wd = [date |-> ExtractedDate, exercises |-> <<>>,
                  workout_type |-> "cardio"]
    /\ Has(PreW[Selected], "workout_type", "strength")
    /\ Has(PostW[Selected], "workout_type", "mixed")

\* C7: on a matching record non-empty incoming notes are appended to
\* non-empty existing notes after "; ", replace empty or missing existing
\* notes, and empty or missing incoming notes change nothing.
C7_Notes ==
    (Ok /\ Selected # 0) =>
        LET old == PreW[Selected]
            new == PostW[Selected]
            wd  == last.wd
        IN  IF "notes" \in DOMAIN wd /\ wd["notes"] # ""
            THEN /\ "notes" \in DOMAIN new
                 /\ new["notes"] =
                        IF "notes" \in DOMAIN old /\ old["notes"] # ""
                        THEN old["notes"] \o "; " \o wd["notes"]
                        ELSE wd["notes"]
            ELSE SameKey(old, new, "notes")

C7_Witness ==
    /\ Ok /\ Selected # 0
    /\ Has(last.wd, "notes", "felt great")
    /\ Has(PreW[Selected], "notes", "tired")
    /\ Has(PostW[Selected], "notes", "tired; felt great")

\* C8: a run merges into the first record, in log order, whose stored
\* date has the target date as a prefix, and appends a record exactly when
\* no stored date has it as a prefix.
C8_FirstPrefixMatch ==
    Ok =>
        IF Selected # 0
        THEN /\ Len(PostW) = Len(PreW)
             /\ PostW[Selected]["exercises"] =
                    PreW[Selected]["exercises"] \o last.wd["exercises"]
             /\ \A j \in 1..Len(PreW) : j # Selected => PostW[j] = PreW[j]
        ELSE /\ Len(PostW) = Len(PreW) + 1
             /\ \A j \in 1..Len(PreW) : PostW[j] = PreW[j]

C8_Witness ==
    /\ Ok
    /\ last.today = "2025-11-01"
    /\ Len(PreW) = 2
    /\ Has(PreW[1], "date", "2025-11-01T00:00:00")
    /\ Has(PreW[2], "date", "2025-11-01")
    /\ Has(last.wd, "exercises", <<Squat>>)
    /\ Has(PostW[1], "exercises", <<Squat>>)
    /\ PostW[2] = PreW[2]

\* C10: a run changes at most one record.  On a match only the matched
\* record's exercises, workout_type and notes may change and the number
\* and order of records stay; without a match the incoming record, dated
\* with the target date, is appended and nothing else changes.  No run
\* removes a record.
C10_Frame ==
    Ran =>
        /\ Len(PostW) >= Len(PreW)
        /\ Ok =>
            IF Selected # 0
            THEN /\ Len(PostW) = Len(PreW)
                 /\ \A j \in 1..Len(PreW) :
                        j # Selected => PostW[j] = PreW[j]
                 /\ DOMAIN PostW[Selected] \subseteq
                        DOMAIN PreW[Selected] \cup {"workout_type", "notes"}
                 /\ \A k \in DOMAIN PreW[Selected] \
                             {"exercises", "workout_type", "notes"} :
                        SameKey(PreW[Selected], PostW[Selected], k)
            ELSE /\ Len(PostW) = Len(PreW) + 1
                 /\ \A j \in 1..Len(PreW) : PostW[j] = PreW[j]
                 /\ LET new == PostW[Len(PostW)]
                    IN  /\ DOMAIN new = DOMAIN last.wd \cup {"date"}
                        /\ new["date"] = last.today
                        /\ \A k \in DOMAIN last.wd \ {"date"} :
                               new[k] = last.wd[k]

C10_Witness ==
    /\ Ok /\ Selected = 1 /\ Len(PreW) = 2
    /\ Has(last.wd, "duration", "45 min")
    /\ Has(PreW[1], "duration", "30 min")
    /\ Has(PostW[1], "duration", "30 min")
    /\ PostW[1]["exercises"] # PreW[1]["exercises"]
    /\ PostW[2] = PreW[2]

---------------------------------------------------------------------------
(* Properties of the concurrent runs *)

\* C5: no invocation's load observes a log another invocation is in the
\* middle of writing.
C5_NoPartialLogObserved ==
    \A p \in Procs :
        pc[p] \notin {"start", "load"} => snap[p].kind # "invalid_json"

\* exercises a file holds under date d
RECURSIVE ExercisesFrom(_, _, _)
ExercisesFrom(w, d, i) ==
    IF i > Len(w) THEN 0
    ELSE (IF Has(w[i], "date", d) /\ "exercises" \in DOMAIN w[i]
          THEN Len(w[i]["exercises"]) ELSE 0) + ExercisesFrom(w, d, i + 1)

ExerciseCount(file, d) == ExercisesFrom(Workouts(file), d, 1)

\* q read the file before p's save and saved last: p's update is stale in
\* what q writes.  Both finished without error.
LostUpdate(p, q) ==
    /\ p # q
    /\ pc[p] = "done" /\ pc[q] = "done"
    /\ seenVer[q] < wroteVer[p]
    /\ wroteVer[p] < wroteVer[q]
    /\ wroteVer[q] = version
    /\ store.kind = "log"

\* C9: nothing locks load -> merge -> save.  When two invocations both
\* load before either saves, the last writer wins: the persisted log is
\* the last writer's snapshot plus its own record, without the exercises
\* of the earlier writer.
C9_LastWriterWins ==
    \A p, q \in Procs :
        LostUpdate(p, q) =>
            /\ ExerciseCount(store, tdate[p]) =
                   ExerciseCount(snap[q], tdate[p])
                   + (IF tdate[q] = tdate[p]
                      THEN Len(wdata[q]["exercises"]) ELSE 0)
            /\ RecordsDated(snap[q], tdate[p]) = {} /\ tdate[q] # tdate[p]
                   => RecordsDated(store, tdate[p]) = {}

C9_Witness ==
    \E p, q \in Procs :
        /\ LostUpdate(p, q)
        /\ seenVer[p] = 0 /\ seenVer[q] = 0 /\ version = 2
        /\ tdate[p] = tdate[q]
        /\ Has(wdata[p], "exercises", <<Squat>>)
        /\ Has(wdata[q], "exercises", <<Bench>>)
        /\ snap[p] = EmptyLog /\ snap[q] = EmptyLog
        /\ ExerciseCount(store, tdate[p]) = 1

====
